---------------------------- MODULE Spec2Model ----------------------------
(***************************************************************************)
(* The retrieval path of the book question-answering service.              *)
(*                                                                         *)
(* Two deployments of the chat route exist: the remote-index route         *)
(* (app/api/chat/route.js over lib/supabase.js) and the linear-scan route  *)
(* (app/api/chat/route.js over lib/local-storage.js).  One request at a    *)
(* time is followed through its awaits.                                    *)
(*                                                                         *)
(* Two ingestion scripts fill the stores: scripts/upload-to-supabase.js    *)
(* writes the book_chunks table, scripts/ingest-books.js writes            *)
(* data/book-chunks.json.  One run at a time is followed through its       *)
(* awaits, each embedding call of a batch completing on its own.           *)
(*                                                                         *)
(* Similarities are JavaScript doubles in the code.  They are modelled in  *)
(* fixed point, in thousandths: 0.30 is 300, Math.round(s * 100) is the    *)
(* rounding of thousandths to hundredths.                                  *)
(***************************************************************************)
EXTENDS Integers, Sequences, FiniteSets, TLC

VARIABLES
    backend,            \* "remote" | "local": which route is deployed
    chunksFile,         \* data/book-chunks.json: [state, chunks]
    bookChunksTable,    \* rows of the remote book_chunks table
    pc,                 \* position of the POST handler
    question,           \* the parsed request body's question
    questionEmbedding,  \* result of generateEmbedding(question)
    step,               \* relaxation step the handler is at (1..3)
    relevantChunks,     \* the handler's relevantChunks
    response,           \* the NextResponse returned
    embedCalls,         \* generateEmbedding calls made by this request
    searchLog,          \* searchBookChunks calls made by this request, in order
    genCalls,           \* generateChatResponse calls made by this request
    clearExisting,      \* processBookToSupabase's clearExisting argument
    books,              \* the files of the run, in the order of the loop
    priorStore,         \* the chunks the store held when the run started
    ipc,                \* position of the ingestion run
    bookIdx,            \* 1-based position in books of the file at hand
    batchStart,         \* the embedding loop's i
    calls,              \* embedding calls of the batch at hand, by globalIndex
    processedChunks,    \* processBookToSupabase's processedChunks
    allChunks,          \* ingestBooks' allChunks (ingest-books.js)
    uploadStart,        \* uploadChunksToSupabase's loop variable i
    uploadedCount,      \* uploadChunksToSupabase's uploadedCount
    processedCount,     \* processBook's processedCount (ingest-books.js)
    returned,           \* the counts returned for the files done so far
    totalChunks,        \* the run's running total of the returned counts
    failedCalls,        \* <<bookIdx, globalIndex>> of each failed embedding call
    oddCalls,           \* the same, of each call answered with another dimension
    storeErrors,        \* bookIdx of each file a store call failed for
    splitCall,          \* arguments of a call of splitTextIntoChunks
    splitChunks         \* what that call returned

vars == << backend, chunksFile, bookChunksTable, pc, question,
           questionEmbedding, step, relevantChunks, response,
           embedCalls, searchLog, genCalls,
           clearExisting, books, priorStore, ipc, bookIdx, batchStart, calls,
           processedChunks, allChunks, uploadStart, uploadedCount,
           processedCount, returned, totalChunks, failedCalls, oddCalls,
           storeErrors, splitCall, splitChunks >>

\* the state of a chat request
requestVars == << pc, question, questionEmbedding, step, relevantChunks,
                  response, embedCalls, searchLog, genCalls >>

\* the state of an ingestion run
ingestVars == << clearExisting, books, priorStore, ipc, bookIdx,
                 batchStart, calls,
                 processedChunks, allChunks, uploadStart, uploadedCount,
                 processedCount, returned, totalChunks, failedCalls,
                 oddCalls, storeErrors, splitCall, splitChunks >>

---------------------------------------------------------------------------
(* Bounds of the model *)

\* longest corpus drawn for the store with every choice of embeddings
MaxChunks == 6
\* longest corpus drawn with one embedding for all of its chunks
MaxUniformChunks == 11
\* most whitespace characters put in front of a question
MaxPad == 1
\* largest matchCount a direct call of searchBookChunks is given
MaxLimit == 3
\* most chunks the splitter makes of one file
MaxTextChunks == 11
\* most embedding calls of one ingestion run that fail or that the provider
\* answers with a vector of another dimension
MaxEmbedFailures == 1

---------------------------------------------------------------------------
(* Program constants *)

\* route.js: question.length > 1000
MaxQuestionLength == 1000
\* route.js: relevantChunks.slice(0, 5)
TopK == 5
\* local route: searchBookChunks(questionEmbedding, 0.75, 5)
LocalMatchThreshold == 750
LocalMatchCount == 5
\* upload-to-supabase.js: const embeddingBatchSize = 5
embeddingBatchSize == 5
\* upload-to-supabase.js, uploadChunksToSupabase: const batchSize = 10
uploadBatchSize == 10
\* ingest-books.js, processBook: const batchSize = 5
batchSize == 5

\* remote route: the chain of searchBookChunks calls, 0.3/10, 0.2/15, 0.1/20
RelaxationSteps ==
    << [threshold |-> 300, cap |-> 10],
       [threshold |-> 200, cap |-> 15],
       [threshold |-> 100, cap |-> 20] >>

---------------------------------------------------------------------------
(* Values *)

\* Embedding vectors the provider returns in this model (dimension 2).
EmbVecs == { <<4, 3>>, <<3, 20>> }
QueryVecs == { <<1, 0>>, <<0, 1>>, <<4, -3>> }

NoVec == << >>

\* The chunk stored at position i of a corpus: ids and chunk indices follow
\* the order of ingestion of one book.
Chunk(i, v) ==
    [id |-> i, book_title |-> "Alpha", chunk_index |-> i - 1, embedding |-> v]

Corpora ==
    UNION { { [i \in 1..n |-> Chunk(i, f[i])] : f \in [1..n -> EmbVecs] }
            : n \in 0..MaxChunks }
    \cup { [i \in 1..n |-> Chunk(i, v)] :
             n \in (MaxChunks + 1)..MaxUniformChunks, v \in EmbVecs }

\* A question as the handler sees it after request.json().  A string is
\* `lead` whitespace characters, then `body` characters that begin and end
\* with a non-whitespace character, then `trail` whitespace characters.
Str(lead, body, trail) ==
    [type |-> "string", num |-> 0, lead |-> lead, body |-> body, trail |-> trail]
NonStr(t, n) ==
    [type |-> t, num |-> n, lead |-> 0, body |-> 0, trail |-> 0]

Questions ==
    { NonStr("undefined", 0), NonStr("number", 0), NonStr("number", 42),
      NonStr("object", 0) }
    \cup { Str(l, b, 0) : l \in 0..MaxPad,
                          b \in {0, 1, MaxQuestionLength, MaxQuestionLength + 1} }

NoQuestion == NonStr("undefined", 0)

\* JavaScript on a question value
Length(q) == q.lead + q.body + q.trail
TrimLength(q) == q.body
Falsy(q) ==
    \/ q.type = "undefined"
    \/ q.type = "number" /\ q.num = 0
    \/ q.type = "string" /\ Length(q) = 0

---------------------------------------------------------------------------
(* lib/local-storage.js *)

RECURSIVE FloorSqrt(_, _, _)
\* largest k in lo..hi with k * k <= n
FloorSqrt(lo, hi, n) ==
    IF lo >= hi THEN lo
    ELSE LET mid == (lo + hi + 1) \div 2
         IN  IF mid * mid <= n THEN FloorSqrt(mid, hi, n)
             ELSE FloorSqrt(lo, mid - 1, n)

\* Math.sqrt of an integer, in hundredths
Sqrt100(n) == FloorSqrt(0, 100 * (n + 1), n * 10000)

RECURSIVE SumProd(_, _, _)
SumProd(a, b, i) ==
    IF i > Len(a) THEN 0 ELSE a[i] * b[i] + SumProd(a, b, i + 1)

\* Variant of cosineSimilarity without the test of the norms: 0 / 0 is NaN,
\* which no threshold admits
cosineSimilarityUnguarded(vecA, vecB) ==
    LET dotProduct == SumProd(vecA, vecB, 1)
        normA == Sqrt100(SumProd(vecA, vecA, 1))
        normB == Sqrt100(SumProd(vecB, vecB, 1))
    IN  IF normA * normB = 0 THEN 0 - 2000
        ELSE IF dotProduct >= 0
             THEN (dotProduct * 10000000) \div (normA * normB)
             ELSE -(((-dotProduct) * 10000000) \div (normA * normB))

\* dotProduct / (normA * normB), in thousandths; 0 when a norm is 0
cosineSimilarity(vecA, vecB) ==
    LET dotProduct == SumProd(vecA, vecB, 1)
        normA == Sqrt100(SumProd(vecA, vecA, 1))
        normB == Sqrt100(SumProd(vecB, vecB, 1))
    IN  IF normA = 0 \/ normB = 0 THEN 0
        ELSE IF dotProduct >= 0
             THEN (dotProduct * 10000000) \div (normA * normB)
             ELSE -(((-dotProduct) * 10000000) \div (normA * normB))

\* loadBookChunks: [] when the file is missing, and [] from the catch when
\* it cannot be read or parsed
loadBookChunks ==
    IF chunksFile.state = "ok" THEN chunksFile.chunks ELSE << >>

WithSimilarity(chunk, queryEmbedding) ==
    [id |-> chunk.id, book_title |-> chunk.book_title,
     chunk_index |-> chunk.chunk_index, embedding |-> chunk.embedding,
     similarity |-> cosineSimilarity(queryEmbedding, chunk.embedding)]

\* Array.prototype.filter
RECURSIVE Filter(_, _)
Filter(s, threshold) ==
    IF s = << >> THEN << >>
    ELSE IF Head(s).similarity >= threshold
         THEN << Head(s) >> \o Filter(Tail(s), threshold)
         ELSE Filter(Tail(s), threshold)

\* Variant of InsertSorted: an element goes in front of the elements it
\* ties with, as under a comparator that never answers 0.
RECURSIVE InsertSortedTiesFirst(_, _)
InsertSortedTiesFirst(sorted, r) ==
    IF sorted = << >> THEN << r >>
    ELSE IF r.similarity - Head(sorted).similarity >= 0
         THEN << r >> \o sorted
         ELSE << Head(sorted) >> \o InsertSortedTiesFirst(Tail(sorted), r)

\* Array.prototype.sort((a, b) => b.similarity - a.similarity): the sort is
\* stable, so an element goes behind every element that does not compare
\* after it.
RECURSIVE InsertSorted(_, _)
InsertSorted(sorted, r) ==
    IF sorted = << >> THEN << r >>
    ELSE IF r.similarity - Head(sorted).similarity > 0
         THEN << r >> \o sorted
         ELSE << Head(sorted) >> \o InsertSorted(Tail(sorted), r)

RECURSIVE SortBySimilarity(_, _)
SortBySimilarity(done, todo) ==
    IF todo = << >> THEN done
    ELSE SortBySimilarity(InsertSorted(done, Head(todo)), Tail(todo))

\* Variant of Slice: slice(0, n + 1)
SliceOneMore(s, n) == SubSeq(s, 1, IF n + 1 < Len(s) THEN n + 1 ELSE Len(s))

\* Array.prototype.slice(0, n)
Slice(s, n) == SubSeq(s, 1, IF n < Len(s) THEN n ELSE Len(s))

\* searchBookChunks of lib/local-storage.js, on the chunks it has loaded
ScanChunks(chunks, queryEmbedding, matchThreshold, matchCount) ==
    IF Len(chunks) = 0 THEN << >>
    ELSE LET similarities ==
                 [i \in 1..Len(chunks) |-> WithSimilarity(chunks[i], queryEmbedding)]
         IN  Slice(SortBySimilarity(<< >>, Filter(similarities, matchThreshold)),
                   matchCount)

searchBookChunks(queryEmbedding, matchThreshold, matchCount) ==
    ScanChunks(loadBookChunks, queryEmbedding, matchThreshold, matchCount)

---------------------------------------------------------------------------
(* lib/supabase.js and the remote index *)

\* The match_book_chunks function of the database: the rows whose
\* similarity to the query is at least the threshold, most similar first,
\* rows of equal similarity in the order of insertion, at most match_count.
match_book_chunks(rows, query_embedding, match_threshold, match_count) ==
    LET scored == [i \in 1..Len(rows) |-> WithSimilarity(rows[i], query_embedding)]
    IN  Slice(SortBySimilarity(<< >>, Filter(scored, match_threshold)), match_count)

\* searchBookChunks of lib/supabase.js when the rpc reports no error:
\* return data || []
remoteSearchBookChunks(embedding, matchThreshold, matchCount) ==
    match_book_chunks(bookChunksTable, embedding, matchThreshold, matchCount)

---------------------------------------------------------------------------
(* app/api/chat/route.js, both deployments *)

\* the value of a field the response does not carry
Absent == 0 - 1

NoResponse ==
    [status |-> 0, kind |-> "none", sources |-> << >>,
     confidence |-> Absent, chunksFound |-> Absent]

ErrorResponse(status, kind) ==
    [status |-> status, kind |-> kind, sources |-> << >>,
     confidence |-> Absent, chunksFound |-> Absent]

\* Math.round(similarity * 100)
RoundPercent(similarity) == (similarity + 5) \div 10

RECURSIVE SumSimilarity(_)
SumSimilarity(chunks) ==
    IF chunks = << >> THEN 0
    ELSE Head(chunks).similarity + SumSimilarity(Tail(chunks))

\* Variant of AverageConfidence: Math.floor in place of Math.round
AverageConfidenceFloor(chunks) ==
    IF Len(chunks) > 0
    THEN SumSimilarity(chunks) \div (10 * Len(chunks))
    ELSE 0

\* Math.round(reduce(sum + similarity, 0) / length * 100), 0 for no chunk
AverageConfidence(chunks) ==
    IF Len(chunks) > 0
    THEN (SumSimilarity(chunks) + 5 * Len(chunks)) \div (10 * Len(chunks))
    ELSE 0

\* the source entry of the chunk at 0-based position index
SourceOf(chunk, index) ==
    [id |-> chunk.id,
     bookTitle |-> chunk.book_title,
     chunkIndex |-> IF chunk.chunk_index # 0 THEN chunk.chunk_index ELSE index,
     similarity |-> RoundPercent(chunk.similarity)]

Sources(chunks) == [i \in 1..Len(chunks) |-> SourceOf(chunks[i], i - 1)]

\* Variant of Validate: question.length in place of question.trim().length
ValidateNoTrim(q) ==
    IF Falsy(q) \/ q.type # "string" \/ Length(q) = 0 THEN "empty"
    ELSE IF Length(q) > MaxQuestionLength THEN "long"
    ELSE "ok"

\* The two validation returns: "empty" for the first, "long" for the
\* second, "ok" when the question passes both.
Validate(q) ==
    IF Falsy(q) \/ q.type # "string" \/ TrimLength(q) = 0 THEN "empty"
    ELSE IF Length(q) > MaxQuestionLength THEN "long"
    ELSE "ok"

BadRequest(v) ==
    ErrorResponse(400, IF v = "empty" THEN "question_required" ELSE "question_too_long")

\* The words the local route's catch looks for in error.message.  The
\* message of a provider error is represented by the set of these words it
\* contains.
ProviderMessages == { {}, {"API"}, {"chunks"} }

\* generateEmbedding's catch: `Failed to generate embedding: ${error.message}`
EmbeddingErrorMessage(inner) == inner \cup {"embedding"}
\* generateChatResponse's catch: `Failed to generate response: ${error.message}`
ResponseErrorMessage(inner) == inner

\* catch of the remote route: always status 500
RemoteCatch(message) == ErrorResponse(500, "unexpected")

\* catch of the local route
LocalCatch(message) ==
    IF "embedding" \in message THEN ErrorResponse(500, "process_failed")
    ELSE IF "chunks" \in message \/ "storage" \in message
         THEN ErrorResponse(503, "data_unavailable")
    ELSE IF "OpenAI" \in message \/ "API" \in message
         THEN ErrorResponse(503, "ai_unavailable")
    ELSE ErrorResponse(500, "unexpected")

\* Variant of NoInformation: the zero-result answer sent as a 404 error
NoInformationNotFound == ErrorResponse(404, "no_information")

NoInformation ==
    [status |-> 200, kind |-> "no_information", sources |-> << >>,
     confidence |-> 0, chunksFound |-> 0]

Answer(topChunks, found) ==
    [status |-> 200, kind |-> "answer", sources |-> Sources(topChunks),
     confidence |-> AverageConfidence(topChunks), chunksFound |-> found]

SearchEntry(threshold, cap, outcome, found) ==
    [threshold |-> threshold, cap |-> cap, embedding |-> questionEmbedding,
     outcome |-> outcome, found |-> found]

\* request.json() and the validation; a valid question starts
\* generateEmbedding(question)
Receive(q) ==
    /\ pc \in {"idle", "done"}
    /\ question' = q
    /\ questionEmbedding' = NoVec
    /\ step' = 0
    /\ relevantChunks' = << >>
    /\ searchLog' = << >>
    /\ genCalls' = << >>
    /\ IF Validate(q) = "ok"
       THEN /\ pc' = "embedding"
            /\ embedCalls' = 1
            /\ response' = NoResponse
       ELSE /\ pc' = "done"
            /\ embedCalls' = 0
            /\ response' = BadRequest(Validate(q))
    /\ UNCHANGED << backend, chunksFile, bookChunksTable >>
    /\ UNCHANGED ingestVars

RemoteReceive(q) == backend = "remote" /\ Receive(q)
LocalReceive(q) == backend = "local" /\ Receive(q)

\* Variant of RemoteEmbedded: generateEmbedding is not awaited, the search
\* starts without the vector
RemoteEmbeddedUnawaited(v) ==
    /\ backend = "remote" /\ pc = "embedding"
    /\ questionEmbedding' = NoVec
    /\ step' = 1
    /\ pc' = "searching"
    /\ UNCHANGED << backend, chunksFile, bookChunksTable, question,
                    relevantChunks, response, embedCalls, searchLog, genCalls >>
    /\ UNCHANGED ingestVars

\* generateEmbedding resolves; the handler starts its first search
RemoteEmbedded(v) ==
    /\ backend = "remote" /\ pc = "embedding"
    /\ questionEmbedding' = v
    /\ step' = 1
    /\ pc' = "searching"
    /\ UNCHANGED << backend, chunksFile, bookChunksTable, question,
                    relevantChunks, response, embedCalls, searchLog, genCalls >>
    /\ UNCHANGED ingestVars

LocalEmbedded(v) ==
    /\ backend = "local" /\ pc = "embedding"
    /\ questionEmbedding' = v
    /\ step' = 1
    /\ pc' = "searching"
    /\ UNCHANGED << backend, chunksFile, bookChunksTable, question,
                    relevantChunks, response, embedCalls, searchLog, genCalls >>
    /\ UNCHANGED ingestVars

\* generateEmbedding throws; the route's catch answers
RemoteEmbedFails(inner) ==
    /\ backend = "remote" /\ pc = "embedding"
    /\ response' = RemoteCatch(EmbeddingErrorMessage(inner))
    /\ pc' = "done"
    /\ UNCHANGED << backend, chunksFile, bookChunksTable, question,
                    questionEmbedding, step, relevantChunks, embedCalls,
                    searchLog, genCalls >>
    /\ UNCHANGED ingestVars

LocalEmbedFails(inner) ==
    /\ backend = "local" /\ pc = "embedding"
    /\ response' = LocalCatch(EmbeddingErrorMessage(inner))
    /\ pc' = "done"
    /\ UNCHANGED << backend, chunksFile, bookChunksTable, question,
                    questionEmbedding, step, relevantChunks, embedCalls,
                    searchLog, genCalls >>
    /\ UNCHANGED ingestVars

\* Variant of ContinueRelaxation: the next search runs whatever the
\* previous one found
ContinueAlways(found, s) == s < Len(RelaxationSteps)

\* remote route: `if (relevantChunks.length === 0)` in front of the second
\* and the third search
ContinueRelaxation(found, s) == Len(found) = 0 /\ s < Len(RelaxationSteps)

\* Variant of TopChunks: no slice
TopChunksAll(chunks) == chunks

\* remote route: const topChunks = relevantChunks.slice(0, 5)
TopChunks(chunks) == Slice(chunks, TopK)

\* a searchBookChunks call of the remote route resolves
RemoteSearchReturns ==
    /\ backend = "remote" /\ pc = "searching"
    /\ LET st == RelaxationSteps[step]
           found == remoteSearchBookChunks(questionEmbedding, st.threshold, st.cap)
       IN  /\ relevantChunks' = found
           /\ searchLog' = Append(searchLog,
                                  SearchEntry(st.threshold, st.cap, "ok", Len(found)))
           /\ IF ContinueRelaxation(found, step)
              THEN /\ step' = step + 1
                   /\ pc' = "searching"
                   /\ UNCHANGED << response, genCalls >>
              ELSE IF Len(found) = 0
              THEN /\ response' = NoInformation
                   /\ pc' = "done"
                   /\ UNCHANGED << step, genCalls >>
              ELSE /\ genCalls' = Append(genCalls, TopChunks(found))
                   /\ pc' = "generating"
                   /\ UNCHANGED << step, response >>
    /\ UNCHANGED << backend, chunksFile, bookChunksTable, question,
                    questionEmbedding, embedCalls >>
    /\ UNCHANGED ingestVars

\* Variant of RemoteSearchFails: searchBookChunks swallows the rpc error and
\* returns [], as loadBookChunks does with a read error
RemoteSearchSwallows ==
    /\ backend = "remote" /\ pc = "searching"
    /\ LET st == RelaxationSteps[step]
       IN  searchLog' = Append(searchLog, SearchEntry(st.threshold, st.cap, "error", 0))
    /\ relevantChunks' = << >>
    /\ IF step < Len(RelaxationSteps)
       THEN step' = step + 1 /\ pc' = "searching" /\ UNCHANGED response
       ELSE response' = NoInformation /\ pc' = "done" /\ UNCHANGED step
    /\ UNCHANGED << backend, chunksFile, bookChunksTable, question,
                    questionEmbedding, embedCalls, genCalls >>
    /\ UNCHANGED ingestVars

\* the rpc of a searchBookChunks call reports an error: searchBookChunks
\* throws it and the route's catch answers
RemoteSearchFails ==
    /\ backend = "remote" /\ pc = "searching"
    /\ LET st == RelaxationSteps[step]
       IN  searchLog' = Append(searchLog, SearchEntry(st.threshold, st.cap, "error", 0))
    /\ response' = RemoteCatch({})
    /\ pc' = "done"
    /\ UNCHANGED << backend, chunksFile, bookChunksTable, question,
                    questionEmbedding, step, relevantChunks, embedCalls, genCalls >>
    /\ UNCHANGED ingestVars

\* the searchBookChunks call of the local route resolves
LocalSearchReturns ==
    /\ backend = "local" /\ pc = "searching"
    /\ LET found == searchBookChunks(questionEmbedding, LocalMatchThreshold,
                                     LocalMatchCount)
       IN  /\ relevantChunks' = found
           /\ searchLog' = Append(searchLog,
                                  SearchEntry(LocalMatchThreshold, LocalMatchCount,
                                              "ok", Len(found)))
           /\ IF Len(found) = 0
              THEN /\ response' = NoInformation
                   /\ pc' = "done"
                   /\ UNCHANGED genCalls
              ELSE /\ genCalls' = Append(genCalls, found)
                   /\ pc' = "generating"
                   /\ UNCHANGED response
    /\ UNCHANGED << backend, chunksFile, bookChunksTable, question,
                    questionEmbedding, step, embedCalls >>
    /\ UNCHANGED ingestVars

\* generateChatResponse resolves: sources, confidence and the response
RemoteGenerated ==
    /\ backend = "remote" /\ pc = "generating"
    /\ response' = Answer(TopChunks(relevantChunks), Len(relevantChunks))
    /\ pc' = "done"
    /\ UNCHANGED << backend, chunksFile, bookChunksTable, question,
                    questionEmbedding, step, relevantChunks, embedCalls,
                    searchLog, genCalls >>
    /\ UNCHANGED ingestVars

LocalGenerated ==
    /\ backend = "local" /\ pc = "generating"
    /\ response' = Answer(relevantChunks, Len(relevantChunks))
    /\ pc' = "done"
    /\ UNCHANGED << backend, chunksFile, bookChunksTable, question,
                    questionEmbedding, step, relevantChunks, embedCalls,
                    searchLog, genCalls >>
    /\ UNCHANGED ingestVars

\* generateChatResponse throws; the route's catch answers
RemoteGenerateFails(inner) ==
    /\ backend = "remote" /\ pc = "generating"
    /\ response' = RemoteCatch(ResponseErrorMessage(inner))
    /\ pc' = "done"
    /\ UNCHANGED << backend, chunksFile, bookChunksTable, question,
                    questionEmbedding, step, relevantChunks, embedCalls,
                    searchLog, genCalls >>
    /\ UNCHANGED ingestVars

LocalGenerateFails(inner) ==
    /\ backend = "local" /\ pc = "generating"
    /\ response' = LocalCatch(ResponseErrorMessage(inner))
    /\ pc' = "done"
    /\ UNCHANGED << backend, chunksFile, bookChunksTable, question,
                    questionEmbedding, step, relevantChunks, embedCalls,
                    searchLog, genCalls >>
    /\ UNCHANGED ingestVars

---------------------------------------------------------------------------
(* The service *)

NoFile == [state |-> "missing", chunks |-> << >>]

\* data/book-chunks.json as a deployment can find it: absent, present but
\* not parsable, or holding the chunks of an ingestion run
ChunkFiles ==
    { NoFile, [state |-> "unparsable", chunks |-> << >>] }
    \cup { [state |-> "ok", chunks |-> c] : c \in Corpora }

\* splitTextIntoChunks is not called
NoSplit == [text |-> << >>, chunkSize |-> 0, overlap |-> 0]
NotSplit == [done |-> FALSE, chunks |-> << >>]

SplitIdle ==
    /\ splitCall = NoSplit
    /\ splitChunks = NotSplit

\* no ingestion run
IngestIdle ==
    /\ clearExisting = FALSE
    /\ books = << >>
    /\ priorStore = << >>
    /\ ipc = "none"
    /\ bookIdx = 0
    /\ batchStart = 0
    /\ calls = << >>
    /\ processedChunks = << >>
    /\ allChunks = << >>
    /\ uploadStart = 0
    /\ uploadedCount = 0
    /\ processedCount = 0
    /\ returned = << >>
    /\ totalChunks = 0
    /\ failedCalls = {}
    /\ oddCalls = {}
    /\ storeErrors = {}
    /\ SplitIdle

RequestIdle ==
    /\ pc = "idle"
    /\ question = NoQuestion
    /\ questionEmbedding = NoVec
    /\ step = 0
    /\ relevantChunks = << >>
    /\ response = NoResponse
    /\ embedCalls = 0
    /\ searchLog = << >>
    /\ genCalls = << >>

Init ==
    /\ backend \in {"remote", "local"}
    /\ IF backend = "remote"
       THEN bookChunksTable \in Corpora /\ chunksFile = NoFile
       ELSE bookChunksTable = << >> /\ chunksFile \in ChunkFiles
    /\ RequestIdle
    /\ IngestIdle

Next ==
    \/ \E q \in Questions : RemoteReceive(q)
    \/ \E q \in Questions : LocalReceive(q)
    \/ \E v \in QueryVecs : RemoteEmbedded(v)
    \/ \E v \in QueryVecs : LocalEmbedded(v)
    \/ \E m \in ProviderMessages : RemoteEmbedFails(m)
    \/ \E m \in ProviderMessages : LocalEmbedFails(m)
    \/ RemoteSearchReturns
    \/ RemoteSearchFails
    \/ LocalSearchReturns
    \/ RemoteGenerated
    \/ LocalGenerated
    \/ \E m \in ProviderMessages : RemoteGenerateFails(m)
    \/ \E m \in ProviderMessages : LocalGenerateFails(m)

Spec == Init /\ [][Next]_vars

---------------------------------------------------------------------------
(* searchBookChunks of lib/local-storage.js called on its own, with any    *)
(* query vector, threshold and limit                                       *)

SearchThresholds == { -500, 0, 148, 600, 750, 990 }

DirectSearch(q, threshold, limit) ==
    /\ pc = "idle"
    /\ LET found == searchBookChunks(q, threshold, limit)
       IN  /\ relevantChunks' = found
           /\ searchLog' = << [threshold |-> threshold, cap |-> limit,
                               embedding |-> q, outcome |-> "ok",
                               found |-> Len(found)] >>
    /\ questionEmbedding' = q
    /\ pc' = "searched"
    /\ UNCHANGED << backend, chunksFile, bookChunksTable, question, step,
                    response, embedCalls, genCalls >>
    /\ UNCHANGED ingestVars

InitSearch ==
    /\ backend = "local"
    /\ bookChunksTable = << >>
    /\ chunksFile \in ChunkFiles
    /\ RequestIdle
    /\ IngestIdle

NextSearch ==
    \E q \in QueryVecs, t \in SearchThresholds, n \in 0..MaxLimit :
        DirectSearch(q, t, n)

SpecSearch == InitSearch /\ [][NextSearch]_vars

---------------------------------------------------------------------------
(* searchBookChunks of lib/local-storage.js over a file that may hold      *)
(* all-zero embeddings, with a query that may be all-zero                  *)

\* longest corpus drawn with all-zero embeddings among its chunks
MaxZeroChunks == 2

ZeroVec == <<0, 0>>

ZeroCorpora ==
    UNION { { [i \in 1..n |-> Chunk(i, f[i])] :
                f \in [1..n -> EmbVecs \cup {ZeroVec}] }
            : n \in 0..MaxZeroChunks }

InitCosine ==
    /\ backend = "local"
    /\ bookChunksTable = << >>
    /\ chunksFile \in { [state |-> "ok", chunks |-> c] : c \in ZeroCorpora }
    /\ RequestIdle
    /\ IngestIdle

NextCosine ==
    \E q \in QueryVecs \cup {ZeroVec}, t \in SearchThresholds, n \in 0..MaxLimit :
        DirectSearch(q, t, n)

SpecCosine == InitCosine /\ [][NextCosine]_vars

----------------------------------------------------------------------------

(* Ingestion: files, chunks and store operations *)

\* the alphanumeric characters among those the titles of the model are
\* written with
Alnum == {"a", "b"}

\* titles (file names without their extension), character by character
TitleOne == <<"a", "-", "b">>
TitleTwo == <<"a", " ", "b">>

\* A file of the books directory: its title, whether readFileSync succeeds
\* on it in this run, and the number of chunks splitTextIntoChunks makes of
\* its content (0 for a content of less than 100 characters).
BookFile(t, r, n) == [title |-> t, readable |-> r, n |-> n]

FirstFiles ==
    { BookFile(TitleOne, r, n) : r \in BOOLEAN, n \in {0, 1, MaxTextChunks} }
SecondFiles == { BookFile(TitleTwo, r, 2) : r \in BOOLEAN }
BookLists == { <<a, b>> : a \in FirstFiles, b \in SecondFiles }

\* the text of the chunk at 0-based position k of the splitter's output
TextChunk(title, k) == <<title, k>>

\* the vector the provider returns for a text
EmbeddingOf(text) == IF text[2] % 2 = 0 THEN <<4, 3>> ELSE <<3, 20>>

\* upload-to-supabase.js: the row built for the chunk at globalIndex k.  The
\* row carries no id (the database assigns it); run stands for uploaded_at.
UploadChunk(title, k, run) ==
    [id |-> Absent, content |-> TextChunk(title, k),
     embedding |-> EmbeddingOf(TextChunk(title, k)),
     book_title |-> title, chunk_index |-> k, run |-> run]

\* ingest-books.js: `${bookTitle.replace(/[^a-zA-Z0-9]/g, '_')}_chunk_${chunkIndex}`
generateChunkId(bookTitle, chunkIndex) ==
    << [i \in 1..Len(bookTitle) |->
           IF bookTitle[i] \in Alnum THEN bookTitle[i] ELSE "_"],
       "_chunk_", chunkIndex >>

\* ingest-books.js: the chunk built at globalIndex k; run tells the runs
\* apart and is not a field of the file
LocalChunk(title, k, run) ==
    [id |-> generateChunkId(title, k), content |-> TextChunk(title, k),
     embedding |-> EmbeddingOf(TextChunk(title, k)),
     book_title |-> title, chunk_index |-> k, run |-> run]

\* the chunk the script of the deployment builds
NewChunk(title, k, run) ==
    IF backend = "remote" THEN UploadChunk(title, k, run)
    ELSE LocalChunk(title, k, run)

\* every chunk of a file, in splitter order
ChunksOfBook(b, run) == [k \in 1..b.n |-> NewChunk(b.title, k - 1, run)]

\* every chunk of the files of a list, file after file
RECURSIVE ChunksOfBooks(_, _)
ChunksOfBooks(bs, run) ==
    IF bs = << >> THEN << >>
    ELSE ChunksOfBook(Head(bs), run) \o ChunksOfBooks(Tail(bs), run)

\* Variant of DeleteBook: the delete removes nothing
DeleteNothing(rows, title) == rows

\* clearBookChunks: delete().eq('metadata->>book_title', bookTitle)
DeleteBook(rows, title) == SelectSeq(rows, LAMBDA r : r.book_title # title)

\* uploadChunksToSupabase: from('book_chunks').insert(batch)
InsertRows(rows, batch) == rows \o batch

\* chunks.slice(i, i + size)
SliceFrom(chunks, i, size) ==
    SubSeq(chunks, i + 1, IF i + size < Len(chunks) THEN i + size ELSE Len(chunks))

\* A generateEmbedding call that has been started: what it ended with (the
\* vector returned, or the kind of the error thrown), the number of requests
\* made to the provider for it, and whether it ended while a call started
\* before it in the batch was still pending.
PendingCall ==
    [state |-> "pending", vector |-> NoVec, error |-> "none", attempts |-> 1,
     overtook |-> FALSE]

\* the errors openai.embeddings.create throws: transient (network error,
\* rate limit) or permanent (authentication, malformed input)
ErrorKinds == {"transient", "permanent"}

\* a vector of another dimension than the vectors of EmbVecs
OddVec == <<1, 1, 1>>

\* call k of the batch c ends
Settled(c, k, state, vector, error) ==
    [c EXCEPT ![k] = [state |-> state, vector |-> vector, error |-> error,
                      attempts |-> c[k].attempts,
                      overtook |-> \E m \in DOMAIN c :
                                      m < k /\ c[m].state = "pending"]]

\* the globalIndex values of the batch that starts at i: batch.map((chunk,
\* index) => ... i + index), every call of the batch started at once
StartBatch(i, n, size) ==
    [k \in i..((IF i + size < n THEN i + size ELSE n) - 1) |-> PendingCall]

\* the globalIndex values of the calls of a batch, in increasing order
CallOrder(c) ==
    LET lo == CHOOSE k \in DOMAIN c : \A m \in DOMAIN c : k <= m
    IN  [j \in 1..Cardinality(DOMAIN c) |-> lo + j - 1]

\* Variant of Embedded: Promise.all rejects with the first failure and the
\* batch is lost
EmbeddedAllOrNothing(c, title) ==
    IF \E k \in DOMAIN c : c[k].state = "failed" THEN << >>
    ELSE [j \in 1..Len(CallOrder(c)) |->
             [NewChunk(title, CallOrder(c)[j], "this")
                 EXCEPT !.embedding = c[CallOrder(c)[j]].vector]]

\* Variant of Embedded: each callback pushes its chunk when its call ends, so
\* the chunks of the calls that overtook an earlier call come first
EmbeddedOvertakersFirst(c, title) ==
    LET ok == SelectSeq(CallOrder(c), LAMBDA k : c[k].state = "ok")
        order == SelectSeq(ok, LAMBDA k : c[k].overtook)
                 \o SelectSeq(ok, LAMBDA k : ~c[k].overtook)
    IN  [j \in 1..Len(order) |->
            [NewChunk(title, order[j], "this")
                EXCEPT !.embedding = c[order[j]].vector]]

\* (await Promise.all(embeddingPromises)).filter(Boolean): the chunks of the
\* calls that succeeded, in the order of the batch
Embedded(c, title) ==
    LET ok == SelectSeq(CallOrder(c), LAMBDA k : c[k].state = "ok")
    IN  [j \in 1..Len(ok) |->
            [NewChunk(title, ok[j], "this") EXCEPT !.embedding = c[ok[j]].vector]]

---------------------------------------------------------------------------
(* Ingestion: the steps shared by the two scripts *)

\* the file the loop of the run is at
Book == books[bookIdx]

\* what no step of an ingestion run changes
IngestFrame ==
    UNCHANGED << backend, requestVars, clearExisting, books, priorStore,
                 splitCall, splitChunks >>

\* processBookToSupabase / processBook returns count to the loop of the run:
\* totalChunks += chunkCount, and the loop moves to the next file
Return(count) ==
    /\ returned' = Append(returned, count)
    /\ totalChunks' = totalChunks + count
    /\ bookIdx' = bookIdx + 1
    /\ ipc' = "next"
    /\ batchStart' = 0
    /\ calls' = << >>
    /\ processedChunks' = << >>
    /\ uploadStart' = 0
    /\ uploadedCount' = 0
    /\ processedCount' = 0

\* Variant of CatchReturnsZero: the error is thrown on and ends the run
CatchRethrows ==
    /\ ipc' = "done"
    /\ batchStart' = 0
    /\ calls' = << >>
    /\ processedChunks' = << >>
    /\ uploadStart' = 0
    /\ uploadedCount' = 0
    /\ processedCount' = 0
    /\ UNCHANGED << returned, totalChunks, bookIdx >>

\* the catch of processBookToSupabase / processBook: log and return 0
CatchReturnsZero == Return(0)

\* readFileSync, the length test, splitTextIntoChunks and the start of the
\* first embedding batch
ReadBook(size) ==
    IF ~Book.readable THEN CatchReturnsZero
    ELSE IF Book.n = 0 THEN Return(0)
    ELSE /\ batchStart' = 0
         /\ calls' = StartBatch(0, Book.n, size)
         /\ ipc' = "embedding"
         /\ UNCHANGED << returned, totalChunks, bookIdx, processedChunks,
                         uploadStart, uploadedCount, processedCount >>

\* one generateEmbedding call of the batch resolves
EmbedCallOk(k) ==
    /\ ipc = "embedding"
    /\ k \in DOMAIN calls /\ calls[k].state = "pending"
    /\ calls' = Settled(calls, k, "ok",
                        EmbeddingOf(TextChunk(Book.title, k)), "none")
    /\ UNCHANGED << chunksFile, bookChunksTable, ipc, bookIdx, batchStart,
                    processedChunks, allChunks, uploadStart, uploadedCount,
                    processedCount, returned, totalChunks, failedCalls, oddCalls,
                    storeErrors >>
    /\ IngestFrame

\* one generateEmbedding call of the batch resolves with a vector of
\* another dimension: response.data[0].embedding is returned as it is
EmbedCallOdd(k) ==
    /\ ipc = "embedding"
    /\ k \in DOMAIN calls /\ calls[k].state = "pending"
    /\ Cardinality(failedCalls) + Cardinality(oddCalls) < MaxEmbedFailures
    /\ calls' = Settled(calls, k, "ok", OddVec, "none")
    /\ oddCalls' = oddCalls \cup { <<bookIdx, k>> }
    /\ UNCHANGED << chunksFile, bookChunksTable, ipc, bookIdx, batchStart,
                    processedChunks, allChunks, uploadStart, uploadedCount,
                    processedCount, returned, totalChunks, failedCalls,
                    storeErrors >>
    /\ IngestFrame

\* one generateEmbedding call of the batch throws, after its one request to
\* the provider; the map callback's catch turns it into null
EmbedCallFails(k) ==
    /\ ipc = "embedding"
    /\ k \in DOMAIN calls /\ calls[k].state = "pending"
    /\ Cardinality(failedCalls) + Cardinality(oddCalls) < MaxEmbedFailures
    /\ \E e \in ErrorKinds : calls' = Settled(calls, k, "failed", NoVec, e)
    /\ failedCalls' = failedCalls \cup { <<bookIdx, k>> }
    /\ UNCHANGED << chunksFile, bookChunksTable, ipc, bookIdx, batchStart,
                    processedChunks, allChunks, uploadStart, uploadedCount,
                    processedCount, returned, totalChunks, oddCalls,
                    storeErrors >>
    /\ IngestFrame

\* Variant of BatchSettled: the script goes on as soon as one call of the
\* batch has resolved or thrown, as under Promise.race
BatchAnySettled ==
    /\ ipc = "embedding"
    /\ \E k \in DOMAIN calls : calls[k].state # "pending"

\* every call of the batch has resolved or thrown: Promise.all resolves
BatchSettled ==
    /\ ipc = "embedding"
    /\ \A k \in DOMAIN calls : calls[k].state # "pending"

\* the setTimeout between two batches has fired: the next batch starts
CooldownOver(size) ==
    /\ ipc = "cooldown"
    /\ batchStart' = batchStart + size
    /\ calls' = StartBatch(batchStart + size, Book.n, size)
    /\ ipc' = "embedding"
    /\ UNCHANGED << chunksFile, bookChunksTable, bookIdx, processedChunks,
                    allChunks, uploadStart, uploadedCount, processedCount,
                    returned, totalChunks, failedCalls, oddCalls, storeErrors >>
    /\ IngestFrame

---------------------------------------------------------------------------
(* scripts/upload-to-supabase.js *)

\* the loop of the run calls processBookToSupabase for the next file; with
\* clearExisting it awaits clearBookChunks first
UploadStartBook ==
    /\ backend = "remote" /\ ipc = "next" /\ bookIdx <= Len(books)
    /\ IF clearExisting
       THEN /\ ipc' = "clearing"
            /\ UNCHANGED << bookIdx, batchStart, calls, processedChunks,
                            uploadStart, uploadedCount, processedCount,
                            returned, totalChunks >>
       ELSE ReadBook(embeddingBatchSize)
    /\ UNCHANGED << chunksFile, bookChunksTable, allChunks, failedCalls, oddCalls,
                    storeErrors >>
    /\ IngestFrame

\* clearBookChunks resolves: the rows of the title are gone; the file is
\* read next
UploadCleared ==
    /\ backend = "remote" /\ ipc = "clearing"
    /\ bookChunksTable' = DeleteBook(bookChunksTable, Book.title)
    /\ ReadBook(embeddingBatchSize)
    /\ UNCHANGED << chunksFile, allChunks, failedCalls, oddCalls, storeErrors >>
    /\ IngestFrame

\* the delete reports an error: clearBookChunks throws, processBookToSupabase
\* catches
UploadClearFails ==
    /\ backend = "remote" /\ ipc = "clearing"
    /\ storeErrors' = storeErrors \cup {bookIdx}
    /\ CatchReturnsZero
    /\ UNCHANGED << chunksFile, bookChunksTable, allChunks, failedCalls, oddCalls >>
    /\ IngestFrame

\* processedChunks.push(...embeddedChunks); then the cooldown, or, after the
\* last batch, the call of uploadChunksToSupabase
UploadBatchDone ==
    /\ backend = "remote" /\ BatchSettled
    /\ LET chunks == processedChunks \o Embedded(calls, Book.title)
       IN  IF batchStart + embeddingBatchSize < Book.n
           THEN /\ processedChunks' = chunks
                /\ ipc' = "cooldown"
                /\ UNCHANGED << bookIdx, batchStart, calls, uploadStart,
                                uploadedCount, processedCount, returned,
                                totalChunks >>
           ELSE IF chunks = << >>
           THEN Return(0)
           ELSE /\ processedChunks' = chunks
                /\ calls' = << >>
                /\ uploadStart' = 0
                /\ uploadedCount' = 0
                /\ ipc' = "uploading"
                /\ UNCHANGED << bookIdx, batchStart, processedCount,
                                returned, totalChunks >>
    /\ UNCHANGED << chunksFile, bookChunksTable, allChunks, failedCalls, oddCalls,
                    storeErrors >>
    /\ IngestFrame

UploadCooldownOver == backend = "remote" /\ CooldownOver(embeddingBatchSize)

\* an insert of uploadChunksToSupabase resolves without error
UploadInsertOk ==
    /\ backend = "remote" /\ ipc = "uploading"
    /\ LET batch == SliceFrom(processedChunks, uploadStart, uploadBatchSize)
           count == uploadedCount + Len(batch)
       IN  /\ bookChunksTable' = InsertRows(bookChunksTable, batch)
           /\ IF uploadStart + uploadBatchSize < Len(processedChunks)
              THEN /\ uploadStart' = uploadStart + uploadBatchSize
                   /\ uploadedCount' = count
                   /\ UNCHANGED << ipc, bookIdx, batchStart, calls,
                                   processedChunks, processedCount, returned,
                                   totalChunks >>
              ELSE Return(count)
    /\ UNCHANGED << chunksFile, allChunks, failedCalls, oddCalls, storeErrors >>
    /\ IngestFrame

\* an insert reports an error: uploadChunksToSupabase throws,
\* processBookToSupabase catches
UploadInsertFails ==
    /\ backend = "remote" /\ ipc = "uploading"
    /\ storeErrors' = storeErrors \cup {bookIdx}
    /\ CatchReturnsZero
    /\ UNCHANGED << chunksFile, bookChunksTable, allChunks, failedCalls, oddCalls >>
    /\ IngestFrame

\* the loop of the run is over
UploadFinish ==
    /\ backend = "remote" /\ ipc = "next" /\ bookIdx > Len(books)
    /\ ipc' = "done"
    /\ UNCHANGED << chunksFile, bookChunksTable, bookIdx, batchStart, calls,
                    processedChunks, allChunks, uploadStart, uploadedCount,
                    processedCount, returned, totalChunks, failedCalls, oddCalls,
                    storeErrors >>
    /\ IngestFrame

---------------------------------------------------------------------------
(* scripts/ingest-books.js *)

\* the loop of ingestBooks calls processBook for the next file
LocalStartBook ==
    /\ backend = "local" /\ ipc = "next" /\ bookIdx <= Len(books)
    /\ ReadBook(batchSize)
    /\ UNCHANGED << chunksFile, bookChunksTable, allChunks, failedCalls, oddCalls,
                    storeErrors >>
    /\ IngestFrame

\* allChunks.push(...embeddedChunks); processedCount += embeddedChunks.length;
\* then the cooldown, or, after the last batch, return processedCount
LocalBatchDone ==
    /\ backend = "local" /\ BatchSettled
    /\ LET embeddedChunks == Embedded(calls, Book.title)
           count == processedCount + Len(embeddedChunks)
       IN  /\ allChunks' = allChunks \o embeddedChunks
           /\ IF batchStart + batchSize < Book.n
              THEN /\ processedCount' = count
                   /\ ipc' = "cooldown"
                   /\ UNCHANGED << bookIdx, batchStart, calls,
                                   processedChunks, uploadStart,
                                   uploadedCount, returned, totalChunks >>
              ELSE Return(count)
    /\ UNCHANGED << chunksFile, bookChunksTable, failedCalls, oddCalls, storeErrors >>
    /\ IngestFrame

LocalCooldownOver == backend = "local" /\ CooldownOver(batchSize)

\* Variant of LocalFinish: the chunks of the run are added to the chunks the
\* file holds
LocalFinishAppends ==
    /\ backend = "local" /\ ipc = "next" /\ bookIdx > Len(books)
    /\ IF Len(allChunks) > 0
       THEN chunksFile' = [state |-> "ok", chunks |-> loadBookChunks \o allChunks]
       ELSE UNCHANGED chunksFile
    /\ ipc' = "done"
    /\ UNCHANGED << bookChunksTable, bookIdx, batchStart, calls,
                    processedChunks, allChunks, uploadStart, uploadedCount,
                    processedCount, returned, totalChunks, failedCalls, oddCalls,
                    storeErrors >>
    /\ IngestFrame

\* the loop is over: `if (allChunks.length > 0) await saveBookChunks(allChunks)`
\* and the write succeeds, or there is nothing to save
LocalFinish ==
    /\ backend = "local" /\ ipc = "next" /\ bookIdx > Len(books)
    /\ IF Len(allChunks) > 0
       THEN chunksFile' = [state |-> "ok", chunks |-> allChunks]
       ELSE UNCHANGED chunksFile
    /\ ipc' = "done"
    /\ UNCHANGED << bookChunksTable, bookIdx, batchStart, calls,
                    processedChunks, allChunks, uploadStart, uploadedCount,
                    processedCount, returned, totalChunks, failedCalls, oddCalls,
                    storeErrors >>
    /\ IngestFrame

\* writeFileSync throws: saveBookChunks throws and ingestBooks rejects
LocalSaveFails ==
    /\ backend = "local" /\ ipc = "next" /\ bookIdx > Len(books)
    /\ Len(allChunks) > 0
    /\ ipc' = "crashed"
    /\ storeErrors' = storeErrors \cup {0}
    /\ UNCHANGED << chunksFile, bookChunksTable, bookIdx, batchStart, calls,
                    processedChunks, allChunks, uploadStart, uploadedCount,
                    processedCount, returned, totalChunks, failedCalls, oddCalls >>
    /\ IngestFrame

---------------------------------------------------------------------------
(* An ingestion run over a store as an earlier run can have left it *)

\* the stores a run can start on: nothing yet, or what a complete earlier
\* run of the same script over the same files wrote
PriorStores(bs) == { << >>, ChunksOfBooks(bs, "prior") }

InitIngest ==
    /\ backend \in {"remote", "local"}
    /\ RequestIdle
    /\ books \in BookLists
    /\ clearExisting \in (IF backend = "remote" THEN BOOLEAN ELSE {FALSE})
    /\ priorStore \in PriorStores(books)
    /\ IF backend = "remote"
       THEN bookChunksTable = priorStore /\ chunksFile = NoFile
       ELSE /\ bookChunksTable = << >>
            /\ chunksFile = IF priorStore = << >> THEN NoFile
                            ELSE [state |-> "ok", chunks |-> priorStore]
    /\ ipc = "next"
    /\ bookIdx = 1
    /\ batchStart = 0
    /\ calls = << >>
    /\ processedChunks = << >>
    /\ allChunks = << >>
    /\ uploadStart = 0
    /\ uploadedCount = 0
    /\ processedCount = 0
    /\ returned = << >>
    /\ totalChunks = 0
    /\ failedCalls = {}
    /\ oddCalls = {}
    /\ storeErrors = {}
    /\ SplitIdle

NextIngest ==
    \/ UploadStartBook
    \/ UploadCleared
    \/ UploadClearFails
    \/ \E k \in 0..MaxTextChunks : EmbedCallOk(k)
    \/ \E k \in 0..MaxTextChunks : EmbedCallOdd(k)
    \/ \E k \in 0..MaxTextChunks : EmbedCallFails(k)
    \/ UploadBatchDone
    \/ UploadCooldownOver
    \/ UploadInsertOk
    \/ UploadInsertFails
    \/ UploadFinish
    \/ LocalStartBook
    \/ LocalBatchDone
    \/ LocalCooldownOver
    \/ LocalFinish
    \/ LocalSaveFails

SpecIngest == InitIngest /\ [][NextIngest]_vars

---------------------------------------------------------------------------
(* scripts/ingest-books.js: splitTextIntoChunks called on its own           *)

\* most words and sentence ends of a text
MaxTextLen == 6
\* largest overlap argument
MaxOverlap == 2

\* the chunks filter of splitTextIntoChunks keeps chunk.length > 50
MinChunkChars == 50

\* A normalised text, item by item: a word is written as its number of
\* characters, a run of the characters . ! ? as Absent.  The words of a text
\* are pairwise different strings, so a word is known by its place.
WordLengths == {3, 60}
Terminator == Absent
Texts == UNION { [1..n -> WordLengths \cup {Terminator}] : n \in 0..MaxTextLen }
ChunkSizes == {2, 4}

\* text.split(/[.!?]+/).filter(s => s.trim().length > 0), each sentence as
\* the sequence of its words
RECURSIVE SplitSentences(_, _, _, _)
SplitSentences(text, i, current, sentences) ==
    LET closed == IF current = << >> THEN sentences
                  ELSE Append(sentences, current)
    IN  IF i > Len(text) THEN closed
        ELSE IF text[i] = Terminator
             THEN SplitSentences(text, i + 1, << >>, closed)
             ELSE SplitSentences(text, i + 1,
                     Append(current, [at |-> i, len |-> text[i]]), sentences)

SentencesOf(text) == SplitSentences(text, 1, << >>, << >>)

\* sentences[i].trim() + '.': the full stop joins the last word
WithStop(sentence) ==
    [sentence EXCEPT ![Len(sentence)].len = @ + 1]

\* estimateTokens of a string of the given number of words:
\* Math.ceil(words / 0.75)
estimateTokens(words) == (4 * words + 2) \div 3

\* words.slice(-overlap): the last overlap words, all of them when there
\* are fewer, and, -0 being 0, all of them when overlap is 0
SliceLast(words, overlap) ==
    IF overlap = 0 \/ overlap >= Len(words) THEN words
    ELSE SubSeq(words, Len(words) - overlap + 1, Len(words))

\* the loop over the sentences and the push of the last chunk
RECURSIVE SplitLoop(_, _, _, _, _, _, _)
SplitLoop(sentences, i, chunks, currentChunk, currentTokens, chunkSize, overlap) ==
    IF i > Len(sentences)
    THEN IF Len(currentChunk) > 0 THEN Append(chunks, currentChunk) ELSE chunks
    ELSE LET sentence == WithStop(sentences[i])
             sentenceTokens == estimateTokens(Len(sentence))
         IN  IF currentTokens + sentenceTokens > chunkSize /\ Len(currentChunk) > 0
             THEN LET overlapWords == SliceLast(currentChunk, overlap)
                      seeded == overlapWords \o sentence
                  IN  SplitLoop(sentences, i + 1, Append(chunks, currentChunk),
                                seeded, estimateTokens(Len(seeded)),
                                chunkSize, overlap)
             ELSE SplitLoop(sentences, i + 1, chunks, currentChunk \o sentence,
                            currentTokens + sentenceTokens, chunkSize, overlap)

\* chunk.length: the characters of the words and one space between two
RECURSIVE CharsOf(_)
CharsOf(chunk) ==
    IF chunk = << >> THEN 0
    ELSE chunk[1].len + (IF Len(chunk) > 1 THEN 1 ELSE 0) + CharsOf(Tail(chunk))

LongEnough(chunk) == CharsOf(chunk) > MinChunkChars

splitTextIntoChunks(text, chunkSize, overlap) ==
    SelectSeq(SplitLoop(SentencesOf(text), 1, << >>, << >>, 0, chunkSize, overlap),
              LongEnough)

SplitCalled ==
    /\ ~splitChunks.done
    /\ splitChunks' =
         [done |-> TRUE,
          chunks |-> splitTextIntoChunks(splitCall.text, splitCall.chunkSize,
                                         splitCall.overlap)]
    /\ UNCHANGED << backend, chunksFile, bookChunksTable, requestVars,
                    clearExisting, books, priorStore, ipc, bookIdx, batchStart,
                    calls, processedChunks, allChunks, uploadStart,
                    uploadedCount, processedCount, returned, totalChunks,
                    failedCalls, oddCalls, storeErrors, splitCall >>

InitSplit ==
    /\ backend = "local"
    /\ bookChunksTable = << >>
    /\ chunksFile = NoFile
    /\ RequestIdle
    /\ clearExisting = FALSE
    /\ books = << >>
    /\ priorStore = << >>
    /\ ipc = "none"
    /\ bookIdx = 0
    /\ batchStart = 0
    /\ calls = << >>
    /\ processedChunks = << >>
    /\ allChunks = << >>
    /\ uploadStart = 0
    /\ uploadedCount = 0
    /\ processedCount = 0
    /\ returned = << >>
    /\ totalChunks = 0
    /\ failedCalls = {}
    /\ oddCalls = {}
    /\ storeErrors = {}
    /\ splitCall \in [text : Texts, chunkSize : ChunkSizes,
                      overlap : 0..MaxOverlap]
    /\ splitChunks = NotSplit

NextSplit == SplitCalled

SpecSplit == InitSplit /\ [][NextSplit]_vars

----------------------------------------------------------------------------

(* Properties *)

Min(a, b) == IF a < b THEN a ELSE b

\* what the store answers to the k-th search of the request at hand
StepResult(k) ==
    remoteSearchBookChunks(questionEmbedding, RelaxationSteps[k].threshold,
                           RelaxationSteps[k].cap)

\* the handler holds a result set it answers from
HasResultSet == pc = "generating" \/ response.kind = "answer"

\* C1: the remote route searches in the order (0.30, 10), (0.20, 15),
\* (0.10, 20); a step is attempted only when every earlier step returned
\* zero results; the result set the answer is made from is that of the first
\* step that returned a non-empty set; a single chunk that matches at 15% is
\* found at the third step and is the only result.
C1_ProgressiveRelaxation ==
    backend = "remote" =>
        /\ Len(searchLog) <= 3
        /\ \A i \in 1..Len(searchLog) :
              /\ searchLog[i].threshold = << 300, 200, 100 >>[i]
              /\ searchLog[i].cap = << 10, 15, 20 >>[i]
              /\ \A j \in 1..(i - 1) :
                    searchLog[j].outcome = "ok" /\ searchLog[j].found = 0
        /\ pc = "searching" => step = Len(searchLog) + 1
        /\ HasResultSet =>
              \E k \in 1..3 :
                  /\ Len(searchLog) = k
                  /\ StepResult(k) # << >>
                  /\ \A j \in 1..(k - 1) : StepResult(j) = << >>
                  /\ relevantChunks = StepResult(k)
        /\ ( /\ HasResultSet
             /\ Len(bookChunksTable) = 1
             /\ cosineSimilarity(questionEmbedding,
                                 bookChunksTable[1].embedding) \in 100..199 )
           => /\ Len(searchLog) = 3
              /\ Len(relevantChunks) = 1
              /\ relevantChunks[1].id = bookChunksTable[1].id

\* C1 witness: a one-chunk store whose chunk matches at 15% only has been
\* found at the third step and answered with confidence 15
C1_Witness ==
    /\ backend = "remote"
    /\ response.kind = "answer"
    /\ Len(bookChunksTable) = 1
    /\ Len(searchLog) = 3
    /\ searchLog[1].found = 0 /\ searchLog[2].found = 0 /\ searchLog[3].found = 1
    /\ Len(relevantChunks) = 1
    /\ relevantChunks[1].similarity = 148
    /\ Len(response.sources) = 1
    /\ response.confidence = 15

\* the arguments and the result of a direct searchBookChunks call
SearchDone == pc = "searched"
CallThreshold == searchLog[1].threshold
CallLimit == searchLog[1].cap

StoredSimilarity(j) ==
    cosineSimilarity(questionEmbedding, loadBookChunks[j].embedding)

\* the result holds the stored chunk at position j
Returned(j) ==
    \E i \in 1..Len(relevantChunks) : relevantChunks[i].id = loadBookChunks[j].id

\* position in the store of the i-th result
StoredAt(i) ==
    CHOOSE j \in 1..Len(loadBookChunks) : loadBookChunks[j].id = relevantChunks[i].id

\* C2: every result of the linear-scan searchBookChunks is a stored chunk
\* with similarity >= threshold, there are at most limit results, and a
\* stored chunk with similarity >= threshold is left out only when limit
\* results of at least its similarity are returned.
C2_SearchThresholdAndLimit ==
    SearchDone =>
        /\ Len(relevantChunks) <= CallLimit
        /\ \A i \in 1..Len(relevantChunks) :
              /\ relevantChunks[i].similarity >= CallThreshold
              /\ \E j \in 1..Len(loadBookChunks) :
                    /\ loadBookChunks[j].id = relevantChunks[i].id
                    /\ relevantChunks[i].similarity = StoredSimilarity(j)
        /\ \A j \in 1..Len(loadBookChunks) :
              (StoredSimilarity(j) >= CallThreshold /\ ~Returned(j))
              => /\ Len(relevantChunks) = CallLimit
                 /\ \A i \in 1..Len(relevantChunks) :
                       relevantChunks[i].similarity >= StoredSimilarity(j)

\* C2 witness: a search that returned limit results, left a matching chunk
\* out and rejected a chunk under the threshold
C2_Witness ==
    /\ SearchDone
    /\ CallLimit > 0
    /\ Len(relevantChunks) = CallLimit
    /\ \E j \in 1..Len(loadBookChunks) :
          StoredSimilarity(j) >= CallThreshold /\ ~Returned(j)
    /\ \E j \in 1..Len(loadBookChunks) : StoredSimilarity(j) < CallThreshold

\* C3: the results of the linear-scan searchBookChunks are in descending
\* order of similarity, and results of equal similarity are in the order in
\* which their chunks were stored.
C3_SearchOrder ==
    SearchDone =>
        \A i, j \in 1..Len(relevantChunks) :
            i < j =>
                \/ relevantChunks[i].similarity > relevantChunks[j].similarity
                \/ /\ relevantChunks[i].similarity = relevantChunks[j].similarity
                   /\ StoredAt(i) < StoredAt(j)

\* C3 witness: a result with two chunks of equal similarity, ranked ahead of
\* a less similar chunk that was stored before them
C3_Witness ==
    /\ SearchDone
    /\ \E i, j \in 1..Len(relevantChunks) :
          /\ i < j
          /\ relevantChunks[i].similarity = relevantChunks[j].similarity
    /\ \E i, j \in 1..Len(relevantChunks) :
          /\ i < j
          /\ relevantChunks[i].similarity > relevantChunks[j].similarity
          /\ StoredAt(i) > StoredAt(j)

\* C4: when a relaxation step of the remote route returns n > 0 results,
\* the passages given to generateChatResponse and the sources returned are
\* exactly the first min(5, n) results in rank order.
C4_TopFive ==
    (backend = "remote" /\ HasResultSet) =>
        LET n == Len(relevantChunks)
            k == Min(5, n)
        IN  /\ n > 0
            /\ Len(genCalls) = 1
            /\ Len(genCalls[1]) <= 5
            /\ genCalls[1] = [i \in 1..k |-> relevantChunks[i]]
            /\ response.kind = "answer" =>
                  /\ Len(response.sources) = k
                  /\ \A i \in 1..k :
                        response.sources[i].id = relevantChunks[i].id

\* C4 witness: the first step returned as many results as its cap allows
\* and five sources were returned
C4_Witness ==
    /\ backend = "remote"
    /\ response.kind = "answer"
    /\ Len(searchLog) = 1
    /\ Len(relevantChunks) = 10
    /\ Len(genCalls[1]) = 5
    /\ Len(response.sources) = 5

\* every search of the route's sequence was made and none returned a match
NoStepMatched ==
    /\ Len(searchLog) = (IF backend = "remote" THEN 3 ELSE 1)
    /\ \A i \in 1..Len(searchLog) :
          searchLog[i].outcome = "ok" /\ searchLog[i].found = 0

\* C5: the confidence of an answer is the mean similarity of the final top
\* results as a percentage, rounded to the nearest integer (halves up); a
\* successful response has confidence 0 and no sources exactly when no step
\* of the threshold sequence returned a match.
C5_Confidence ==
    /\ response.kind = "answer" =>
          LET top == genCalls[1]
              n == Len(top)
              c == response.confidence
          IN  /\ n > 0
              /\ (2 * c - 1) * 10 * n <= 2 * SumSimilarity(top)
              /\ 2 * SumSimilarity(top) < (2 * c + 1) * 10 * n
    /\ response.status = 200 =>
          ((response.confidence = 0 /\ response.sources = << >>) <=> NoStepMatched)

\* C5 witness: an answer over chunks of different similarity whose mean was
\* rounded up
C5_Witness ==
    /\ response.kind = "answer"
    /\ Len(genCalls[1]) >= 2
    /\ genCalls[1][1].similarity # genCalls[1][Len(genCalls[1])].similarity
    /\ response.confidence * 10 * Len(genCalls[1]) > SumSimilarity(genCalls[1])

\* the store is readable and holds no chunk
StoreEmpty ==
    IF backend = "remote" THEN bookChunksTable = << >>
    ELSE chunksFile.state = "ok" /\ chunksFile.chunks = << >>

\* C6: against an empty store every search returns the empty sequence, the
\* generative model is not called, and the response to a request whose
\* searches completed is a successful one with confidence 0 and no sources.
C6_EmptyStore ==
    StoreEmpty =>
        /\ \A i \in 1..Len(searchLog) :
              searchLog[i].outcome = "ok" => searchLog[i].found = 0
        /\ pc # "generating"
        /\ genCalls = << >>
        /\ ( /\ pc = "done"
             /\ searchLog # << >>
             /\ searchLog[Len(searchLog)].outcome = "ok" )
           => /\ response.status = 200
              /\ response.confidence = 0
              /\ response.sources = << >>

\* C6 witness: the local route has answered a request against an empty file
C6_Witness ==
    /\ StoreEmpty
    /\ backend = "local"
    /\ pc = "done"
    /\ searchLog # << >>
    /\ response.status = 200

\* C7: with the linear-scan store, a request that reaches the search while
\* the chunk file is missing or unparsable is answered with the
\* store-unavailable error, not with the zero-result answer.
C7_StoreUnavailableReported ==
    ( /\ backend = "local"
      /\ chunksFile.state # "ok"
      /\ pc = "done"
      /\ searchLog # << >> )
    => /\ response.kind = "data_unavailable"
       /\ response.kind # "no_information"

\* C8: with the remote index, a search step that reports an error is the
\* last step of the request, the generative model is not called and the
\* response is an error; only steps that completed with zero matches are
\* followed by another step.
C8_SearchErrorStops ==
    backend = "remote" =>
        \A i \in 1..Len(searchLog) :
            /\ searchLog[i].outcome = "error" =>
                  /\ i = Len(searchLog)
                  /\ pc = "done"
                  /\ genCalls = << >>
                  /\ response.status >= 500
                  /\ response.kind # "no_information"
                  /\ response.confidence = Absent
            /\ i < Len(searchLog) =>
                  searchLog[i].outcome = "ok" /\ searchLog[i].found = 0

\* C8 witness: the second step failed after the first returned no match
C8_Witness ==
    /\ backend = "remote"
    /\ Len(bookChunksTable) > 0
    /\ Len(searchLog) = 2
    /\ searchLog[1].outcome = "ok"
    /\ searchLog[2].outcome = "error"
    /\ response.status = 500

\* the request's generateEmbedding call threw
EmbeddingFailed ==
    pc = "done" /\ embedCalls = 1 /\ questionEmbedding = NoVec

\* C9: when the embedding of the question fails, no search is run, the
\* generative model is not called, and the response is the
\* service-unavailable error (status 503).
C9_EmbeddingFailureUnavailable ==
    EmbeddingFailed =>
        /\ searchLog = << >>
        /\ genCalls = << >>
        /\ response.status = 503

\* a question that is missing, not a string, empty, whitespace-only or
\* longer than 1000 characters
Invalid(q) ==
    \/ q.type # "string"
    \/ q.body = 0
    \/ q.lead + q.body + q.trail > 1000

\* C10: an invalid question is rejected with status 400 before any
\* embedding, search or generation call; a question that is not rejected is
\* a non-blank string of at most 1000 characters.
C10_Validation ==
    pc # "idle" =>
        /\ Invalid(question) =>
              /\ pc = "done"
              /\ response.status = 400
              /\ embedCalls = 0
              /\ searchLog = << >>
              /\ genCalls = << >>
        /\ (embedCalls > 0 \/ searchLog # << >> \/ genCalls # << >>
            \/ response.status # 400) =>
              /\ question.type = "string"
              /\ question.body > 0
              /\ question.lead + question.body + question.trail <= 1000

\* C10 witness: a whitespace-only question has been rejected
C10_Witness ==
    /\ pc = "done"
    /\ question.type = "string"
    /\ question.body = 0
    /\ question.lead > 0
    /\ response.status = 400
    /\ embedCalls = 0

\* a search has been started for the request at hand
SearchStarted == pc \in {"searching", "generating"} \/ searchLog # << >>

\* C11: a chat request makes exactly one embedding call; the call has
\* completed (the vector is held) before the first search starts; every
\* search of the request, whatever its relaxation step, is made with that
\* vector; the searches are sequential: the search in flight is the only one
\* that has not returned, and it is the one after the last that returned.
C11_OneEmbeddingSequentialSearches ==
    /\ embedCalls \in {0, 1}
    /\ pc \in {"embedding", "searching", "generating"} => embedCalls = 1
    /\ pc = "embedding" =>
          /\ questionEmbedding = NoVec
          /\ step = 0
          /\ searchLog = << >>
    /\ SearchStarted =>
          /\ embedCalls = 1
          /\ questionEmbedding \in QueryVecs
    /\ \A i \in 1..Len(searchLog) :
          searchLog[i].embedding = questionEmbedding
    /\ IF pc = "searching"
       THEN step = Len(searchLog) + 1
       ELSE step = Len(searchLog)

\* C11 witness: a request of the remote route has made its three searches,
\* one after the other, each with the vector of its single embedding call
C11_Witness ==
    /\ backend = "remote"
    /\ pc = "done"
    /\ embedCalls = 1
    /\ step = 3
    /\ Len(searchLog) = 3
    /\ questionEmbedding \in QueryVecs
    /\ \A i \in 1..3 : searchLog[i].embedding = questionEmbedding

\* the chunks the answer at hand was generated from, in rank order
CitedChunks == genCalls[Len(genCalls)]

\* C12: every citation of an answer reports, as chunkIndex, the chunk_index
\* stored with its chunk, at whatever rank the chunk is cited and also when
\* the stored chunk_index is 0, and, as similarity, the chunk's similarity
\* as a rounded percentage.
C12_CitationFields ==
    (response.kind = "answer" /\ genCalls # << >>) =>
        /\ Len(response.sources) = Len(CitedChunks)
        /\ \A i \in 1..Len(CitedChunks) :
              /\ response.sources[i].chunkIndex = CitedChunks[i].chunk_index
              /\ response.sources[i].similarity =
                     RoundPercent(CitedChunks[i].similarity)

---------------------------------------------------------------------------
(* Properties of the ingestion runs *)

\* the chunks a search of the deployment reads
Store == IF backend = "remote" THEN bookChunksTable ELSE loadBookChunks

OfTitle(rows, title) == SelectSeq(rows, LAMBDA r : r.book_title = title)

\* the chunks of the i-th file in the store, before the run, and as a
\* complete ingestion by this run writes them
StoredOf(i) == OfTitle(Store, books[i].title)
PriorOf(i) == OfTitle(priorStore, books[i].title)
NewOf(i) == ChunksOfBook(books[i], "this")

\* the chunks of the i-th file this run has put in the store
WrittenOf(i) == SelectSeq(StoredOf(i), LAMBDA r : r.run = "this")

\* the globalIndex values of the embedding calls that failed for file i
FailedOf(i) == { k \in 0..MaxTextChunks : <<i, k>> \in failedCalls }

\* the run replaces what the store held for a file
Replacing == backend = "local" \/ clearExisting

\* an embedding call or a store call failed while file i was processed
BookFailed(i) == FailedOf(i) # {} \/ i \in storeErrors

\* C13: when the re-ingestion of a source with clearExisting = true has
\* failed after it started (an embedding call failed, or a store call was
\* rejected), the store holds for that source either the complete new chunk
\* set or the untouched prior chunk set.
C13_ReplacementAllOrNothing ==
    (backend = "remote" /\ clearExisting) =>
        \A i \in 1..Len(returned) :
            BookFailed(i) => StoredOf(i) \in { PriorOf(i), NewOf(i) }

\* no call of the run has failed so far, none was answered with a vector of
\* another dimension, and every file can be read
NothingFailed ==
    /\ failedCalls = {}
    /\ oddCalls = {}
    /\ storeErrors = {}
    /\ \A i \in 1..Len(books) : books[i].readable

\* C14: at every point of an ingestion run, which is every point where a
\* concurrent search can read the store, the chunks visible for each source
\* are either its complete prior set or its complete new set.
C14_NoHalfWrittenSource ==
    (Replacing /\ NothingFailed) =>
        \A i \in 1..Len(books) : StoredOf(i) \in { PriorOf(i), NewOf(i) }

\* C15: a run that replaces what the store holds, with every provider and
\* store call succeeding, leaves the store with one copy of each chunk of
\* each file, written by this run, whether the store was empty before or
\* held the chunks of an earlier complete run: ingesting twice leaves what
\* ingesting once leaves, no chunk duplicated, none of the first run left.
C15_ReingestIdempotent ==
    (ipc = "done" /\ Replacing /\ NothingFailed) =>
        /\ Store = ChunksOfBooks(books, "this")
        /\ \A i \in 1..Len(books) :
              /\ Len(StoredOf(i)) = Len(PriorOf(i)) \/ priorStore = << >>
              /\ \A j \in 1..Len(StoredOf(i)) :
                    /\ StoredOf(i)[j].chunk_index = j - 1
                    /\ StoredOf(i)[j].content = TextChunk(books[i].title, j - 1)
                    /\ StoredOf(i)[j].run = "this"

\* C15 witness: the upload script has re-ingested, with clearExisting, a
\* file of several upload batches over the chunks of an earlier run
C15_Witness ==
    /\ backend = "remote" /\ clearExisting
    /\ ipc = "done"
    /\ NothingFailed
    /\ priorStore # << >>
    /\ books[1].n = MaxTextChunks
    /\ Len(StoredOf(1)) = MaxTextChunks
    /\ Len(PriorOf(1)) = MaxTextChunks

\* C16: writing chunks the store already holds, with no delete in between,
\* leaves each chunk once: no two rows of the table are the same chunk of
\* the same source.
C16_RepeatedWriteKeepsOne ==
    backend = "remote" =>
        \A i, j \in 1..Len(bookChunksTable) :
            ( /\ bookChunksTable[i].book_title = bookChunksTable[j].book_title
              /\ bookChunksTable[i].chunk_index = bookChunksTable[j].chunk_index )
            => i = j

\* the chunk_index values of the chunks of file i in the store
IndexesOf(i) == { StoredOf(i)[j].chunk_index : j \in 1..Len(StoredOf(i)) }

\* C17: after a run that replaces the store's content and returned a
\* positive count for a source, the chunk_index values of the source's
\* chunks in the store are exactly 0..n-1, no gap and no duplicate, also
\* when embedding calls of the run failed.
C17_ContiguousIndexes ==
    (ipc = "done" /\ Replacing /\ storeErrors = {}) =>
        \A i \in 1..Len(returned) :
            returned[i] > 0 =>
                /\ IndexesOf(i) = 0..(Len(StoredOf(i)) - 1)
                /\ Len(StoredOf(i)) = returned[i]

\* file i was read and split into at least one chunk
Split(i) == books[i].readable /\ books[i].n > 0

\* C18: when embedding calls fail for chunks of a source and no store call
\* fails, the run writes every other chunk of the source, of the same batch
\* and of the later batches, each once; it writes no failed chunk; and the
\* count returned for the source is the number of chunks written, smaller
\* than the number of chunks the splitter produced.
C18_EmbeddingFailureIsolated ==
    (ipc = "done" /\ storeErrors = {}) =>
        \A i \in 1..Len(books) :
            Split(i) =>
                /\ { WrittenOf(i)[j].chunk_index : j \in 1..Len(WrittenOf(i)) }
                       = (0..(books[i].n - 1)) \ FailedOf(i)
                /\ Len(WrittenOf(i)) = books[i].n - Cardinality(FailedOf(i))
                /\ returned[i] = Len(WrittenOf(i))
                /\ FailedOf(i) # {} => returned[i] < books[i].n

\* C18 witness: a call of the first batch of a file of three batches has
\* failed, and the run has written the other chunks of the file
C18_Witness ==
    /\ ipc = "done" /\ storeErrors = {}
    /\ books[1].readable /\ books[1].n = MaxTextChunks
    /\ \E k \in 0..(embeddingBatchSize - 1) : FailedOf(1) = {k}
    /\ Len(WrittenOf(1)) = MaxTextChunks - 1
    /\ returned[1] = MaxTextChunks - 1

\* nothing failed while file i was processed and the provider answered every
\* call of the file with a vector of the usual dimension
BookClean(i) ==
    /\ books[i].readable
    /\ ~BookFailed(i)
    /\ \A k \in 0..MaxTextChunks : <<i, k>> \notin oddCalls

\* C19: a run ends only after every file of its list has been processed,
\* whichever of them failed; at the end the chunks of every file that was
\* processed without failure are written and counted, whether the failing
\* file came before or after it.
C19_FailingSourceDoesNotStop ==
    ipc = "done" =>
        /\ Len(returned) = Len(books)
        /\ \A i \in 1..Len(books) :
              BookClean(i) =>
                  /\ WrittenOf(i) = NewOf(i)
                  /\ returned[i] = books[i].n

\* C19 witness: the first file failed on a store call, the second file was
\* processed after it and its chunks are written
C19_Witness ==
    /\ ipc = "done"
    /\ 1 \in storeErrors /\ returned[1] = 0
    /\ BookClean(2)
    /\ Len(WrittenOf(2)) = books[2].n
    /\ returned[2] = books[2].n /\ returned[2] > 0

RECURSIVE Sum(_)
Sum(s) == IF s = << >> THEN 0 ELSE Head(s) + Sum(Tail(s))

\* C20: the count returned for a source is the number of chunks of that
\* source in the store when the call has returned, and the run's total is
\* the sum of the counts returned so far; also when an upload batch fails
\* after earlier batches of the source were written.
C20_CountMatchesStore ==
    (backend = "remote" /\ priorStore = << >>) =>
        /\ totalChunks = Sum(returned)
        /\ \A i \in 1..Len(returned) : returned[i] = Len(StoredOf(i))

\* the vector the provider returned for the chunk at globalIndex k of file i
ReturnedFor(i, k) ==
    IF <<i, k>> \in oddCalls THEN OddVec
    ELSE EmbeddingOf(TextChunk(books[i].title, k))

\* the sequences of chunks of file i the run holds or has written
RunChunksOf(i) ==
    { WrittenOf(i), OfTitle(processedChunks, books[i].title),
      OfTitle(allChunks, books[i].title) }

\* C21: in whatever order the embedding calls of a batch end, every chunk
\* the run holds or has written pairs the text at its chunk_index in the
\* splitter's output with the vector the provider returned for that text,
\* and the chunks of a source are in increasing chunk_index order.
C21_PairingAndOrder ==
    \A i \in 1..Len(books) :
        \A s \in RunChunksOf(i) :
            \A j \in 1..Len(s) :
                /\ s[j].content = TextChunk(books[i].title, s[j].chunk_index)
                /\ s[j].embedding = ReturnedFor(i, s[j].chunk_index)
                /\ j > 1 => s[j - 1].chunk_index < s[j].chunk_index

\* C21 witness: a full batch of the upload script has been collected, one
\* of whose calls ended before a call started earlier in the batch
C21_Witness ==
    /\ backend = "remote" /\ ipc = "cooldown"
    /\ Len(processedChunks) = embeddingBatchSize
    /\ \E k \in DOMAIN calls :
          /\ calls[k].overtook
          /\ calls[k].state = "ok"
          /\ processedChunks[k - batchStart + 1].chunk_index = k
          /\ processedChunks[k - batchStart + 1].embedding = calls[k].vector

\* C22: every embedding in the store has the same dimension: a run never
\* stores a vector the provider returned with another length.
C22_UniformDimension ==
    \A i, j \in 1..Len(Store) :
        Len(Store[i].embedding) = Len(Store[j].embedding)

\* C23: an embedding call that failed with a transient error was retried
\* (more than one request was made for it) before it counted as failed; one
\* that failed with a permanent error was not retried.
C23_TransientRetried ==
    \A k \in DOMAIN calls :
        calls[k].state = "failed" =>
            IF calls[k].error = "transient"
            THEN calls[k].attempts > 1
            ELSE calls[k].attempts = 1

\* the sentences of the text a call of splitTextIntoChunks was given, each
\* with its full stop
StoppedSentences ==
    LET sentences == SentencesOf(splitCall.text)
    IN  [i \in 1..Len(sentences) |-> WithStop(sentences[i])]

RECURSIVE Concat(_)
Concat(seqs) == IF seqs = << >> THEN << >> ELSE Head(seqs) \o Concat(Tail(seqs))

\* the seed a chunk takes from the chunk before it: its last overlap words,
\* all of its words when it has fewer, none when overlap is 0
SeedFrom(chunk, overlap) ==
    SubSeq(chunk, Len(chunk) - Min(overlap, Len(chunk)) + 1, Len(chunk))

\* a chunk without the seed it took from the chunk before it
Unseeded(chunks, j) ==
    IF j = 1 THEN chunks[j]
    ELSE SubSeq(chunks[j],
                Len(SeedFrom(chunks[j - 1], splitCall.overlap)) + 1,
                Len(chunks[j]))

WordsOf(chunk) == { chunk[k] : k \in 1..Len(chunk) }

\* C24: splitTextIntoChunks loses no sentence: every sentence of the text is
\* in at least one chunk returned, and the chunks returned, each without its
\* overlap seed, put one after the other are the sentences of the text in
\* their order.
C24_NoSentenceLost ==
    splitChunks.done =>
        LET chunks == splitChunks.chunks
        IN  /\ \A i \in 1..Len(StoppedSentences) :
                   \E j \in 1..Len(chunks) :
                       WordsOf(StoppedSentences[i]) \subseteq WordsOf(chunks[j])
            /\ Concat([j \in 1..Len(chunks) |-> Unseeded(chunks, j)])
                   = Concat(StoppedSentences)

\* the sentence of the text a word belongs to
SentenceAt(word) ==
    CHOOSE i \in 1..Len(StoppedSentences) :
        \E k \in 1..Len(StoppedSentences[i]) :
            StoppedSentences[i][k].at = word.at

\* C25: every chunk returned after the first begins with exactly the last
\* overlap words of the chunk returned before it (all of its words when it
\* has fewer, none when overlap is 0), and the next sentence follows them.
C25_OverlapSeed ==
    splitChunks.done =>
        LET chunks == splitChunks.chunks
        IN  \A j \in 2..Len(chunks) :
                LET before == chunks[j - 1]
                    seed == SeedFrom(before, splitCall.overlap)
                    follows == StoppedSentences[SentenceAt(before[Len(before)]) + 1]
                IN  /\ Len(chunks[j]) >= Len(seed) + Len(follows)
                    /\ SubSeq(chunks[j], 1, Len(seed)) = seed
                    /\ SubSeq(chunks[j], Len(seed) + 1,
                              Len(seed) + Len(follows)) = follows

\* C26: a sentence whose token estimate is above the target size is
\* returned whole in a chunk that holds no other sentence: apart from at
\* most overlap seed words in front of it, the chunk is that sentence.
C26_OversizedAlone ==
    splitChunks.done =>
        \A i \in 1..Len(StoppedSentences) :
            LET sentence == StoppedSentences[i]
            IN  estimateTokens(Len(sentence)) > splitCall.chunkSize =>
                    \E j \in 1..Len(splitChunks.chunks) :
                        LET chunk == splitChunks.chunks[j]
                            seedLen == Len(chunk) - Len(sentence)
                        IN  /\ seedLen >= 0
                            /\ seedLen <= splitCall.overlap
                            /\ SubSeq(chunk, seedLen + 1, Len(chunk)) = sentence

IsZero(vec) == \A i \in 1..Len(vec) : vec[i] = 0

\* C27: cosineSimilarity is 0 whenever one of its vectors is all-zero and
\* has the same value with its arguments swapped; a search over a file that
\* holds an all-zero embedding ends normally and scores that chunk 0, so the
\* chunk is found exactly under a threshold of 0 or less.
C27_ZeroVectorScoresZero ==
    pc = "searched" =>
        /\ searchLog[1].outcome = "ok"
        /\ \A j \in 1..Len(relevantChunks) :
               LET found == relevantChunks[j]
               IN  /\ (IsZero(found.embedding) \/ IsZero(questionEmbedding))
                          => found.similarity = 0
                   /\ found.similarity
                          = cosineSimilarity(found.embedding, questionEmbedding)
        /\ \A i \in 1..Len(loadBookChunks) :
               (/\ IsZero(loadBookChunks[i].embedding)
                /\ Len(relevantChunks) < searchLog[1].cap)
               => ((\E j \in 1..Len(relevantChunks) :
                        relevantChunks[j].id = loadBookChunks[i].id)
                   <=> searchLog[1].threshold <= 0)

\* a search with a query that is not all-zero found a chunk whose embedding
\* is all-zero, scored 0, next to a chunk scored otherwise
C27_Witness ==
    /\ pc = "searched"
    /\ ~IsZero(questionEmbedding)
    /\ \E j, k \in 1..Len(relevantChunks) :
           /\ IsZero(relevantChunks[j].embedding)
           /\ relevantChunks[j].similarity = 0
           /\ relevantChunks[k].similarity # 0

\* the embedding calls in flight
InFlight == { k \in DOMAIN calls : calls[k].state = "pending" }

\* the batch size of the script that runs
BatchSizeOfRun == IF backend = "remote" THEN embeddingBatchSize ELSE batchSize

\* this step starts the embedding calls of a batch
BatchStarts ==
    /\ calls' # calls
    /\ \E k \in DOMAIN calls' : calls'[k].state = "pending"
    /\ \A k \in DOMAIN calls' : calls'[k].state = "pending"

\* C28: the embedding calls in flight are at most the batch size and are
\* calls of the one batch at hand of the one source at hand; the calls of a
\* batch start only when no call is in flight, those of a later batch of a
\* source only when the cooldown that follows the batch before it is over;
\* and the run moves to the next source only when no call is in flight.
C28_OneBatchInFlight ==
    /\ [](/\ Cardinality(InFlight) <= BatchSizeOfRun
          /\ InFlight \subseteq batchStart..(batchStart + BatchSizeOfRun - 1)
          /\ InFlight # {} => (ipc = "embedding" /\ bookIdx <= Len(books)))
    /\ [][/\ BatchStarts =>
                /\ InFlight = {}
                /\ bookIdx' = bookIdx
                /\ IF batchStart' = 0
                   THEN ipc \in {"next", "clearing"}
                   ELSE /\ ipc = "cooldown"
                        /\ batchStart' = batchStart + BatchSizeOfRun
          /\ bookIdx' # bookIdx => InFlight = {}]_vars

\* the second batch of a source is in flight, every call of it, after the
\* first batch of five was embedded
C28_Witness ==
    /\ ipc = "embedding"
    /\ batchStart = BatchSizeOfRun
    /\ Cardinality(InFlight) = BatchSizeOfRun
    /\ Len(allChunks) + Len(processedChunks) + Cardinality(failedCalls)
           = BatchSizeOfRun

\* C29: the ids generateChunkId gives in a local ingestion run are unique:
\* two chunks of the run that differ in the title of their source or in
\* their chunk index never have the same id.
C29_UniqueChunkIds ==
    backend = "local" =>
        \A i, j \in 1..Len(allChunks) :
            (\/ allChunks[i].book_title # allChunks[j].book_title
             \/ allChunks[i].chunk_index # allChunks[j].chunk_index)
            => allChunks[i].id # allChunks[j].id

\* the file a local run started on
PriorFile ==
    IF priorStore = << >> THEN NoFile ELSE [state |-> "ok", chunks |-> priorStore]

\* the position in books of the file of a title
BookPos(title) == CHOOSE i \in 1..Len(books) : books[i].title = title

\* <<source, chunk index>> of the chunks this run embedded
EmbeddedKeys ==
    { <<i, k>> \in (1..Len(books)) \X (0..(MaxTextChunks + 1)) :
          /\ books[i].readable
          /\ k < books[i].n
          /\ <<i, k>> \notin failedCalls }

KeyOf(chunk) == << BookPos(chunk.book_title), chunk.chunk_index >>

\* C30: a local ingestion run writes the store file once, at the end of the
\* run, and only when it embedded a chunk: the file then holds exactly the
\* chunks embedded in this run, source after source and in chunk order, and
\* nothing of an earlier run; when the run embedded no chunk the file is not
\* written and keeps the content it had.
C30_OneWriteAtTheEnd ==
    /\ [](backend = "local" =>
            /\ ipc # "done" => chunksFile = PriorFile
            /\ ipc = "done" =>
                 IF EmbeddedKeys = {}
                 THEN chunksFile = PriorFile
                 ELSE LET stored == chunksFile.chunks
                      IN  /\ chunksFile.state = "ok"
                          /\ stored = allChunks
                          /\ \A j \in 1..Len(stored) : stored[j].run = "this"
                          /\ { KeyOf(stored[j]) : j \in 1..Len(stored) }
                                 = EmbeddedKeys
                          /\ \A j \in 1..(Len(stored) - 1) :
                                 \/ KeyOf(stored[j])[1] < KeyOf(stored[j + 1])[1]
                                 \/ /\ KeyOf(stored[j])[1] = KeyOf(stored[j + 1])[1]
                                    /\ KeyOf(stored[j])[2] < KeyOf(stored[j + 1])[2])
    /\ [][(backend = "local" /\ chunksFile' # chunksFile)
              => (ipc = "next" /\ ipc' = "done")]_vars

\* a run over a file of an earlier run ended after it embedded chunks of
\* both sources, one call having failed, and wrote them in place of the
\* earlier ones
C30_Witness ==
    /\ backend = "local"
    /\ ipc = "done"
    /\ priorStore # << >>
    /\ failedCalls # {}
    /\ chunksFile.chunks = allChunks
    /\ \E i, j \in 1..Len(allChunks) :
           allChunks[i].book_title # allChunks[j].book_title

\* a run over a file of an earlier run ended without one chunk embedded and
\* left the file as it was
C30_NothingWritten ==
    /\ backend = "local"
    /\ ipc = "done"
    /\ priorStore # << >>
    /\ allChunks = << >>
    /\ chunksFile = PriorFile

===========================================================================
